---- MODULE Spec2Model ----
(***************************************************************************)
(* The gesture-to-text engine of core/vision_manager.py: VisionThread's    *)
(* keyboard geometry, the hit test and dwell detector of detect_key_press, *)
(* and the text assembly and inactivity commit of the frame loop in run.   *)
(*                                                                         *)
(* Time is counted in whole seconds.  One step of the model is one         *)
(* iteration of the frame loop: cap.read() blocks for some time, then the  *)
(* frame is processed at the instant the read returned.                    *)
(***************************************************************************)
EXTENDS Integers, Sequences, FiniteSets, TLC

\* ------------------------------------------------------------------ bounds
\* The clock stops the exploration at MaxTime.
MaxTime == 15
\* cap.read() blocks for 0..MaxGap seconds.
MaxGap == 3
\* Longest current_word and sentence explored.
MaxWordLen == 2
MaxSentLen == 3
\* Sessions started and frames read per session in the lifecycle model.
MaxSessions == 2
MaxFrames == 3
\* The camera indices that may be present are 0..MaxCamera.
MaxCamera == 1
\* Most words of a sentence given to BACKSPACE.
MaxLineWords == 3
\* The smallest frame of the hit test, and how many times it is grown: each
\* time every key gets one pixel wider and higher and the division that
\* gives the key size leaves one pixel more.
MinFrameWidth == 96
MinFrameHeight == 72
MaxGrow == 1
\* The samples of a run are counted up to MaxCount.
MaxCount == 4
\* The clock stops the typing of a nine-letter word at MaxTypingTime.
MaxTypingTime == 33

\* --------------------------------------------------------------- constants
None == "None"
\* A falsy key_start_time (None); time.time() itself is never falsy.
NoTime == 0
\* time.time() at the first frame: far beyond 0, the initial last_word_time.
StartTime == 3
key_press_cooldown == 3
word_timeout == 2
FrameWidth == 1280
FrameHeight == 720
KeyColumns == 12
ExtraRows == 4
KeyInset == 5
BottomMargin == 20

\* ---------------------------------------------------------------- geometry
create_keyboard_layout ==
    << <<"1", "2", "3", "4", "5", "6", "7", "8", "9", "0">>,
       <<"q", "w", "e", "r", "t", "y", "u", "i", "o", "p">>,
       <<"a", "s", "d", "f", "g", "h", "j", "k", "l">>,
       <<"z", "x", "c", "v", "b", "n", "m">>,
       <<"(", ")", "\"", "'", "SE", "ET", "BC">> >>

keys == create_keyboard_layout

key_height == FrameHeight \div (Len(keys) + ExtraRows)

key_width == FrameWidth \div KeyColumns

keyboard_y == FrameHeight - (Len(keys) * key_height) - BottomMargin

\* Rows and columns are 1-based here, 0-based in the source.
start_x(i) == (FrameWidth - Len(keys[i]) * key_width) \div 2

key_x(i, j) == start_x(i) + (j - 1) * key_width

key_y(i) == keyboard_y + (i - 1) * key_height

\* The hit condition of detect_key_press: one key width, whatever the key.
Contains(i, j, x, y) ==
    /\ key_x(i, j) < x
    /\ x < key_x(i, j) + key_width - KeyInset
    /\ key_y(i) < y
    /\ y < key_y(i) + key_height - KeyInset

\* The first key, in row-major order, whose rectangle contains the point.
HitKey(x, y) ==
    LET rows == {i \in 1..Len(keys) : \E j \in 1..Len(keys[i]) : Contains(i, j, x, y)}
    IN  IF rows = {} THEN None
        ELSE LET i == CHOOSE r \in rows : \A q \in rows : r <= q
                 cols == {j \in 1..Len(keys[i]) : Contains(i, j, x, y)}
                 j == CHOOSE c \in cols : \A q \in cols : c <= q
             IN  keys[i][j]

\* Pixel positions of the index fingertip, int(index_tip.x * width) and
\* int(index_tip.y * height): on 'a', on 's', on SE, on ET, on BC, off the
\* keyboard.
FingerPoints ==
    { <<200, 500>>, <<300, 500>>, <<720, 650>>, <<830, 650>>, <<940, 650>>,
      <<40, 40>> }

\* Lines 124-137 for each of these positions.
KeyUnder == [p \in FingerPoints |-> HitKey(p[1], p[2])]

\* ------------------------------------------- geometry of a frame of any size
\* Lines 50-53 and 108-111: frame.shape gives h rows and w columns.
KeyHeightAt(h) == h \div (Len(keys) + ExtraRows)

KeyWidthAt(w) == w \div KeyColumns

\* Lines 63 and 122.
KeyboardYAt(h) == h - (Len(keys) * KeyHeightAt(h)) - BottomMargin

\* Lines 66-67 and 127-128.
StartXAt(w, i) == (w - Len(keys[i]) * KeyWidthAt(w)) \div 2

\* Lines 69-70 and 130-131: every key is placed one key width after the
\* one before it.
KeyXAt(w, i, j) == StartXAt(w, i) + (j - 1) * KeyWidthAt(w)

KeyYAt(h, i) == KeyboardYAt(h) + (i - 1) * KeyHeightAt(h)

\* Lines 73-76 of draw_keyboard.
key_width_multiplier(k) == IF k \in {"SE", "ET", "BC"} THEN 2 ELSE 1

\* Line 93: the rectangle drawn for key j of row i, from (x, y) to
\* (x + key_width * multiplier - 5, y + key_height - 5); the point is inside.
InRectangle(w, h, i, j, x, y) ==
    /\ KeyXAt(w, i, j) < x
    /\ x < KeyXAt(w, i, j) + KeyWidthAt(w) * key_width_multiplier(keys[i][j]) - KeyInset
    /\ KeyYAt(h, i) < y
    /\ y < KeyYAt(h, i) + KeyHeightAt(h) - KeyInset

\* Variant of ContainsAt: the inset is added instead of subtracted.
ContainsGrown(w, h, i, j, x, y) ==
    /\ KeyXAt(w, i, j) < x
    /\ x < KeyXAt(w, i, j) + KeyWidthAt(w) + KeyInset
    /\ KeyYAt(h, i) < y
    /\ y < KeyYAt(h, i) + KeyHeightAt(h) + KeyInset

\* Lines 132-133: the hit condition of detect_key_press.
ContainsAt(w, h, i, j, x, y) ==
    /\ KeyXAt(w, i, j) < x
    /\ x < KeyXAt(w, i, j) + KeyWidthAt(w) - KeyInset
    /\ KeyYAt(h, i) < y
    /\ y < KeyYAt(h, i) + KeyHeightAt(h) - KeyInset

\* The positions (row, column) of the layout.
Positions ==
    UNION {{<<i, j>> : j \in 1..Len(keys[i])} : i \in 1..Len(keys)}

\* The keys whose hit condition holds at (x, y).
Matches(w, h, x, y) == {q \in Positions : ContainsAt(w, h, q[1], q[2], x, y)}

\* Lines 124-137: the first match in row-major order, None without one.
HitKeyAt(w, h, x, y) ==
    LET m == Matches(w, h, x, y)
    IN  IF m = {} THEN None
        ELSE LET q == CHOOSE a \in m : \A b \in m :
                          a[1] < b[1] \/ (a[1] = b[1] /\ a[2] <= b[2])
             IN  keys[q[1]][q[2]]

\* ------------------------------------------------------------------- state
VARIABLES
    now,             \* time.time() at the frame being processed
    current_key,     \* VisionThread.current_key
    key_start_time,  \* VisionThread.key_start_time
    key_emitted,     \* VisionThread.key_emitted
    current_word,    \* VisionThread.current_word, a sequence of characters
    sentence,        \* VisionThread.sentence, a sequence of characters
    last_word_time,  \* VisionThread.last_word_time
    text_emitted,    \* VisionThread.text_emitted
    key,             \* what detect_key_press returned in the last iteration
    key_pressed,     \* the key_pressed signals emitted in the last iteration
    sampled,         \* history: the key under the fingertip in the last frame
    lastHit,         \* history: the key under the latest fingertip sample
    runStart,        \* history: time of the first sample of the latest run
    runLast,         \* history: time of the last sample of the latest run
    runEmits,        \* history: keys returned during the current run
    holdStart,       \* history: time the current unbroken contact began
    holdEmits,       \* history: keys returned during the current contact
    rearm,           \* history: the contact follows a confirmation of its key
    lastEmit,        \* history: the key returned most recently
    explicit,        \* history: SPACE or ENTER returned since the last printable key
    words,           \* history: the words committed since the last ENTER
    cameras,         \* environment: the camera indices that open
    available_cameras, \* VisionManager.available_cameras
    vision_thread,   \* VisionManager.vision_thread: None or the thread
    camera_index,    \* VisionThread.camera_index
    running,         \* VisionThread.running
    cap,             \* VisionThread.cap: None, opened, unopened or released
    hands,           \* VisionThread.hands: open or closed
    wpc,             \* where the worker is in run()
    gpc,             \* where the GUI thread is
    start_enabled,   \* start_vision_button.isEnabled()
    connected,       \* the signals of the thread that have a slot connected
    sessions,        \* history: workers started so far
    frames,          \* history: cap.read() calls of the current worker
    errors,          \* history: error_occurred signals of the current worker
    surfaced,        \* history: those of them that reached a connected slot
    late,            \* history: the worker read or emitted after an error
    cause,           \* history: why the current worker left run()
    returned,        \* history: the GUI call that returned last
    frame_w,         \* width of the frame given to detect_key_press
    frame_h,         \* height of that frame
    tip_x,           \* x of detect_key_press: int(index_tip.x * width)
    tip_y,           \* y of detect_key_press: int(index_tip.y * height)
    hit_key,         \* current_key of detect_key_press after lines 124-137
    runSamples,      \* history: fingertip samples of the latest run
    typed,           \* history: the printable keys confirmed, less those taken back
    emitted,         \* history: the word events of all commits, concatenated
    vision_text,     \* the GUI's vision_text.toPlainText()
    alive,           \* history: the VisionThreads whose run() has not returned
    pending,         \* the events queued for the GUI thread and not yet handled
    after_stop       \* history: a slot ran after stop_vision had returned and
                     \* before any new start

dwellVars == <<current_key, key_start_time, key_emitted>>

textVars == <<current_word, sentence, last_word_time, text_emitted>>

histVars == <<sampled, lastHit, runStart, runLast, runEmits, holdStart,
              holdEmits, rearm, lastEmit, explicit, words>>

engineVars == <<now, dwellVars, textVars, key, key_pressed, histVars>>

workerVars == <<camera_index, running, cap, hands, wpc>>

managerVars == <<cameras, available_cameras, vision_thread>>

guiVars == <<gpc, start_enabled, connected>>

lifeHistVars == <<sessions, frames, errors, surfaced, late, cause, returned>>

lifeVars == <<workerVars, managerVars, guiVars, lifeHistVars>>

geomVars == <<frame_w, frame_h, tip_x, tip_y, hit_key>>

\* What the frame loop of the engine model does not touch.
textHist == <<typed, emitted, vision_text>>

queueVars == <<alive, pending, after_stop>>

auxVars == <<runSamples, textHist, queueVars>>

restVars == <<lifeVars, geomVars, auxVars>>

vars == <<engineVars, restVars>>

NoHand == "NoHand"

NoFrame == "NoFrame"

\* The tokens sent on key_pressed besides words.
SpaceToken == <<" ">>

NewlineToken == <<"\n">>

BackspaceToken == <<"b", "a", "c", "k", "s", "p", "a", "c", "e">>

EmptySentenceToken == <<>>

\* ---------------------------------------------------------- dwell detector
DwellState(k, t, e) == [current_key |-> k, key_start_time |-> t, key_emitted |-> e]

\* Variant of HoldComplete: the threshold compared with > instead of >=.
HoldCompleteLate(s, t) ==
    /\ t - s.key_start_time > key_press_cooldown
    /\ ~s.key_emitted

\* Variant of HoldComplete: key_emitted is not consulted.
HoldCompleteUnlatched(s, t) == t - s.key_start_time >= key_press_cooldown

\* Variant of HoldComplete: the second sample on a key confirms it, however
\* long the hold.
HoldCompleteBySamples(s, t) == ~s.key_emitted

\* Line 144: the hold has lasted long enough and was not reported yet.
HoldComplete(s, t) ==
    /\ t - s.key_start_time >= key_press_cooldown
    /\ ~s.key_emitted

\* Variant of NewCandidate: the hold of the key before is carried over.
NewCandidateKeepsStart(s, hit, t) == DwellState(hit, s.key_start_time, FALSE)

\* Lines 148-150: a key other than the candidate starts a new hold.
NewCandidate(s, hit, t) == DwellState(hit, t, FALSE)

\* Variant of Released: a miss leaves the candidate in place.
ReleasedKeepsCandidate(s) == s

\* Lines 152-154: the fingertip is over no key.
Released(s) == DwellState(None, NoTime, FALSE)

\* Lines 139-156 of detect_key_press, given the key under the fingertip.
\* The result is the new dwell state and the returned key.
HandleTiming(s, hit, t) ==
    IF hit # None
    THEN IF s.current_key = hit
         THEN IF s.key_start_time = NoTime
              THEN [dwell |-> [s EXCEPT !.key_start_time = t], ret |-> None]
              ELSE IF HoldComplete(s, t)
                   THEN [dwell |-> [s EXCEPT !.key_emitted = TRUE], ret |-> hit]
                   ELSE [dwell |-> s, ret |-> None]
         ELSE [dwell |-> NewCandidate(s, hit, t), ret |-> None]
    ELSE [dwell |-> Released(s), ret |-> None]

\* Lines 103-106: detect_key_press(frame, hand_landmarks) given no landmarks.
NoLandmarks(s) ==
    [dwell |-> [s EXCEPT !.current_key = None, !.key_start_time = NoTime],
     ret |-> None]

\* detect_key_press(frame, hand_landmarks) with landmarks present, the index
\* fingertip at pixel p.
detect_key_press(s, p, t) == HandleTiming(s, KeyUnder[p], t)

\* ---------------------------------------------------------- text assembler
TextBuffer(w, s, l, e) ==
    [current_word |-> w, sentence |-> s, last_word_time |-> l, text_emitted |-> e]

Whitespace == {" ", "\n"}

\* str.split(): the maximal runs of non-whitespace characters, in order.
RECURSIVE SplitFrom(_, _, _)
SplitFrom(s, cur, acc) ==
    IF s = <<>>
    THEN IF cur = <<>> THEN acc ELSE Append(acc, cur)
    ELSE IF Head(s) \in Whitespace
         THEN SplitFrom(Tail(s), <<>>, IF cur = <<>> THEN acc ELSE Append(acc, cur))
         ELSE SplitFrom(Tail(s), Append(cur, Head(s)), acc)

Split(s) == SplitFrom(s, <<>>, <<>>)

\* " ".join(ws)
RECURSIVE Join(_)
Join(ws) ==
    IF ws = <<>> THEN <<>>
    ELSE IF Len(ws) = 1 THEN ws[1]
         ELSE ws[1] \o <<" ">> \o Join(Tail(ws))

\* s[:-1] and words.pop()
DropLast(s) == SubSeq(s, 1, Len(s) - 1)

\* The result of a text operation: the new buffer, the key_pressed signals
\* in the order emitted, and the words appended to sentence.
Outcome(tb, ev, cm) == [tb |-> tb, events |-> ev, commits |-> cm]

\* Variant of CommitText: a space is written after the word.
CommitTextSpaced(tb) == tb.sentence \o tb.current_word \o <<" ">>

\* Lines 193 and 200 and 225: what a commit appends to sentence.
CommitText(tb) == tb.sentence \o tb.current_word

\* Variant of MayCommit: text_emitted is not consulted.
MayCommitAfterBackspace(tb) == tb.current_word # <<>>

\* Variant of MayCommit: an empty current_word is committed too.
MayCommitEmpty(tb) == ~tb.text_emitted

\* Lines 192, 199: a word is committed by SPACE and ENTER only under this test.
MayCommit(tb) == tb.current_word # <<>> /\ ~tb.text_emitted

\* Lines 191-197.
HandleSpace(tb) ==
    IF MayCommit(tb)
    THEN Outcome(TextBuffer(<<>>, CommitText(tb), tb.last_word_time, TRUE),
                 <<tb.current_word, SpaceToken>>, <<tb.current_word>>)
    ELSE Outcome(tb, <<>>, <<>>)

\* Lines 198-205.
HandleEnter(tb) ==
    IF MayCommit(tb)
    THEN Outcome(TextBuffer(<<>>, <<>>, tb.last_word_time, TRUE),
                 <<tb.current_word, NewlineToken>>, <<tb.current_word>>)
    ELSE Outcome(TextBuffer(tb.current_word, <<>>, tb.last_word_time, TRUE),
                 <<NewlineToken>>, <<>>)

\* Variant of HandleBackspace: words.pop(0), the first token is removed.
HandleBackspaceDropsFirst(tb) ==
    IF tb.current_word # <<>>
    THEN Outcome([tb EXCEPT !.current_word = DropLast(@), !.text_emitted = TRUE],
                 <<BackspaceToken>>, <<>>)
    ELSE IF tb.sentence # <<>> /\ Split(tb.sentence) # <<>>
         THEN LET s == Join(Tail(Split(tb.sentence)))
              IN  Outcome([tb EXCEPT !.sentence = s, !.text_emitted = TRUE],
                          <<s>>, <<>>)
         ELSE Outcome([tb EXCEPT !.text_emitted = TRUE], <<>>, <<>>)

\* Variant of HandleBackspace: the whole word is dropped.
HandleBackspaceClearsWord(tb) ==
    IF tb.current_word # <<>>
    THEN Outcome([tb EXCEPT !.current_word = <<>>, !.text_emitted = TRUE],
                 <<BackspaceToken>>, <<>>)
    ELSE IF tb.sentence # <<>> /\ Split(tb.sentence) # <<>>
         THEN LET s == Join(DropLast(Split(tb.sentence)))
              IN  Outcome([tb EXCEPT !.sentence = s, !.text_emitted = TRUE],
                          <<s>>, <<>>)
         ELSE Outcome([tb EXCEPT !.text_emitted = TRUE], <<>>, <<>>)

\* Lines 206-217.
HandleBackspace(tb) ==
    IF tb.current_word # <<>>
    THEN Outcome([tb EXCEPT !.current_word = DropLast(@), !.text_emitted = TRUE],
                 <<BackspaceToken>>, <<>>)
    ELSE IF tb.sentence # <<>> /\ Split(tb.sentence) # <<>>
         THEN LET s == Join(DropLast(Split(tb.sentence)))
              IN  Outcome([tb EXCEPT !.sentence = s, !.text_emitted = TRUE],
                          <<s>>, <<>>)
         ELSE Outcome([tb EXCEPT !.text_emitted = TRUE], <<>>, <<>>)

\* Variant of HandlePrintable: last_word_time is not set.
HandlePrintableKeepsTime(tb, k, t) ==
    Outcome(TextBuffer(Append(tb.current_word, k), tb.sentence,
                       tb.last_word_time, FALSE),
            <<>>, <<>>)

\* Lines 218-221.
HandlePrintable(tb, k, t) ==
    Outcome(TextBuffer(Append(tb.current_word, k), tb.sentence, t, FALSE),
            <<>>, <<>>)

\* Variant of HandleKey: the branch of BC is missing.
HandleKeyNoBackspace(tb, k, t) ==
    IF k = None THEN Outcome(tb, <<>>, <<>>)
    ELSE IF k = "SE" THEN HandleSpace(tb)
    ELSE IF k = "ET" THEN HandleEnter(tb)
    ELSE HandlePrintable(tb, k, t)

\* Lines 190-221: the key returned by detect_key_press, if any, is applied.
HandleKey(tb, k, t) ==
    IF k = None THEN Outcome(tb, <<>>, <<>>)
    ELSE IF k = "SE" THEN HandleSpace(tb)
    ELSE IF k = "ET" THEN HandleEnter(tb)
    ELSE IF k = "BC" THEN HandleBackspace(tb)
    ELSE HandlePrintable(tb, k, t)

\* Variant of WordTimedOut: the inactivity window is as long as the dwell.
WordTimedOutLate(tb, t) ==
    /\ tb.current_word # <<>>
    /\ t - tb.last_word_time > key_press_cooldown
    /\ ~tb.text_emitted

\* Line 224: the test of the inactivity commit.
WordTimedOut(tb, t) ==
    /\ tb.current_word # <<>>
    /\ t - tb.last_word_time > word_timeout
    /\ ~tb.text_emitted

\* Variant of InactivityCheck: the word is emitted and kept.
InactivityCheckKeepsWord(tb, t) ==
    IF WordTimedOut(tb, t)
    THEN Outcome(TextBuffer(tb.current_word, CommitText(tb), tb.last_word_time, TRUE),
                 <<tb.current_word>>, <<tb.current_word>>)
    ELSE Outcome(tb, <<>>, <<>>)

\* Lines 223-228.
InactivityCheck(tb, t) ==
    IF WordTimedOut(tb, t)
    THEN Outcome(TextBuffer(<<>>, CommitText(tb), tb.last_word_time, TRUE),
                 <<tb.current_word>>, <<tb.current_word>>)
    ELSE Outcome(tb, <<>>, <<>>)

\* -------------------------------------------------------------- frame loop
Dwell == DwellState(current_key, key_start_time, key_emitted)

Text == TextBuffer(current_word, sentence, last_word_time, text_emitted)

IsKey(k) == k \notin {None, NoHand, NoFrame}

Count(ret) == IF ret = None THEN 0 ELSE 1

AtMostTwo(n) == IF n > 2 THEN 2 ELSE n

\* A run is a maximal sequence of consecutive fingertip samples over the
\* same key; frames without a hand carry no sample.  A contact is a maximal
\* sequence of consecutive frames whose fingertip is over the same key.
Recorded(hit, ret, t) ==
    /\ sampled' = hit
    /\ lastEmit' = IF ret = None THEN lastEmit ELSE ret
    /\ explicit' = IF ret \in {"SE", "ET"} THEN TRUE
                   ELSE IF ret \in {None, "BC"} THEN explicit ELSE FALSE
    /\ IF hit = NoHand
       THEN UNCHANGED <<lastHit, runStart, runLast, runEmits>>
       ELSE IF IsKey(hit) /\ hit = lastHit
            THEN /\ runLast' = t
                 /\ runEmits' = AtMostTwo(runEmits + Count(ret))
                 /\ UNCHANGED <<lastHit, runStart>>
            ELSE IF IsKey(hit)
                 THEN /\ lastHit' = hit
                      /\ runStart' = t
                      /\ runLast' = t
                      /\ runEmits' = Count(ret)
                 ELSE /\ lastHit' = None
                      /\ UNCHANGED <<runStart, runLast, runEmits>>
    /\ IF IsKey(hit) /\ hit = sampled
       THEN /\ holdEmits' = AtMostTwo(holdEmits + Count(ret))
            /\ UNCHANGED <<holdStart, rearm>>
       ELSE IF IsKey(hit)
            THEN /\ holdStart' = t
                 /\ holdEmits' = Count(ret)
                 /\ rearm' = (lastEmit = hit)
            ELSE /\ holdStart' = NoTime
                 /\ holdEmits' = 0
                 /\ rearm' = FALSE

\* The words of sentence as the commits, ENTER and the sentence-level
\* BACKSPACE are meant to leave them.
WordsAfter(ret, keyed, timed) ==
    IF ret = "ET" THEN <<>>
    ELSE IF ret = "BC" /\ current_word = <<>> /\ words # <<>> THEN DropLast(words)
    ELSE words \o keyed.commits \o timed.commits

\* Lines 180-233: the processing of one frame read at time t; det is the
\* outcome of detect_key_press, or the unchanged dwell state when the frame
\* shows no hand and detect_key_press is not called (line 186).
ProcessFrameWithin(hit, det, t, wl, sl) ==
    \E keyed \in {HandleKey(Text, det.ret, t)} :
    \E timed \in {InactivityCheck(keyed.tb, t)} :
        /\ Len(timed.tb.current_word) <= wl
        /\ Len(timed.tb.sentence) <= sl
        /\ now' = t
        /\ current_key' = det.dwell.current_key
        /\ key_start_time' = det.dwell.key_start_time
        /\ key_emitted' = det.dwell.key_emitted
        /\ current_word' = timed.tb.current_word
        /\ sentence' = timed.tb.sentence
        /\ last_word_time' = timed.tb.last_word_time
        /\ text_emitted' = timed.tb.text_emitted
        /\ key' = det.ret
        /\ key_pressed' = keyed.events \o timed.events
        /\ words' = WordsAfter(det.ret, keyed, timed)
        /\ Recorded(hit, det.ret, t)

\* The same, explored up to the bounds on current_word and sentence.
ProcessFrame(hit, det, t) ==
    ProcessFrameWithin(hit, det, t, MaxWordLen, MaxSentLen)

\* An iteration whose frame shows a hand, its index fingertip at pixel p.
IterHand(d, p) ==
    /\ now + d <= MaxTime
    /\ \E det \in {detect_key_press(Dwell, p, now + d)} :
           ProcessFrame(KeyUnder[p], det, now + d)

\* An iteration whose frame shows no hand.
IterNoHand(d) ==
    /\ now + d <= MaxTime
    /\ ProcessFrame(NoHand, [dwell |-> Dwell, ret |-> None], now + d)

\* VisionThread.__init__, lines 27-35, at time t.
EngineInit(t) ==
    /\ now = t
    /\ current_key = None
    /\ key_start_time = NoTime
    /\ key_emitted = FALSE
    /\ current_word = <<>>
    /\ sentence = <<>>
    /\ last_word_time = 0
    /\ text_emitted = FALSE
    /\ key = None
    /\ key_pressed = <<>>
    /\ sampled = NoFrame
    /\ lastHit = None
    /\ runStart = NoTime
    /\ runLast = NoTime
    /\ runEmits = 0
    /\ holdStart = NoTime
    /\ holdEmits = 0
    /\ rearm = FALSE
    /\ lastEmit = None
    /\ explicit = FALSE
    /\ words = <<>>

\* ------------------------------------------------- manager, worker and GUI
\* range(4) of _get_available_cameras.
ProbeCount == 4

Signals == <<"frame_ready", "key_pressed", "error_occurred">>

AllSignals == {Signals[i] : i \in 1..Len(Signals)}

\* Lines 250-265: the probe stops at the first index that opens.
GetAvailableCameras(cams) ==
    LET found == {i \in 0..(ProbeCount - 1) : i \in cams}
    IN  IF found = {} THEN <<>>
        ELSE <<CHOOSE i \in found : \A j \in found : i <= j>>

\* A worker in its frame loop, every signal connected.
SessionRunning ==
    /\ cameras = {0}
    /\ available_cameras = GetAvailableCameras({0})
    /\ vision_thread = "thread"
    /\ camera_index = 0
    /\ running = TRUE
    /\ cap = "opened"
    /\ hands = "open"
    /\ wpc = "loop"
    /\ gpc = "idle"
    /\ start_enabled = FALSE
    /\ connected = AllSignals
    /\ sessions = 1
    /\ frames = 0
    /\ errors = 0
    /\ surfaced = 0
    /\ late = FALSE
    /\ cause = "none"
    /\ returned = "start"
    /\ alive = 1

\* Lines 169-170: the camera is set to 1280 x 720; the geometry of other
\* frame sizes is explored by GeomSpec only.
FrameFixed ==
    /\ frame_w = FrameWidth
    /\ frame_h = FrameHeight
    /\ tip_x = 0
    /\ tip_y = 0
    /\ hit_key = None
    /\ runSamples = 0
    /\ typed = <<>>
    /\ emitted = <<>>
    /\ vision_text = <<>>
    /\ pending = <<>>
    /\ after_stop = FALSE

Init == EngineInit(StartTime) /\ SessionRunning /\ FrameFixed

Next ==
    \/ \E d \in 0..MaxGap : \E p \in FingerPoints :
           IterHand(d, p) /\ UNCHANGED restVars
    \/ \E d \in 0..MaxGap : IterNoHand(d) /\ UNCHANGED restVars

Spec == Init /\ [][Next]_vars

\* VisionThread.__init__, lines 27-35, for the thread start_vision creates.
EngineReset ==
    /\ now' = now
    /\ current_key' = None
    /\ key_start_time' = NoTime
    /\ key_emitted' = FALSE
    /\ current_word' = <<>>
    /\ sentence' = <<>>
    /\ last_word_time' = 0
    /\ text_emitted' = FALSE
    /\ key' = None
    /\ key_pressed' = <<>>
    /\ sampled' = NoFrame
    /\ lastHit' = None
    /\ runStart' = NoTime
    /\ runLast' = NoTime
    /\ runEmits' = 0
    /\ holdStart' = NoTime
    /\ holdEmits' = 0
    /\ rearm' = FALSE
    /\ lastEmit' = None
    /\ explicit' = FALSE
    /\ words' = <<>>

\* Variant of IsRunning: the manager takes its thread for finished.
IsRunningNever == FALSE

\* QThread.isRunning() of the manager's thread.
IsRunning == wpc \in {"start", "opened", "loop"}

\* Line 2463: the position selected in camera_combo, which holds one item
\* per available camera.
CurrentIndex == {i \in 0..(ProbeCount - 1) : i < Len(available_cameras)}

\* Lines 271-272 and VisionThread.__init__: a new thread, its engine state
\* empty, is created and started; control is back in gui.start_vision, which
\* has no signal connected yet.
CreateThread ==
    /\ \E i \in CurrentIndex : camera_index' = i
    /\ EngineReset
    /\ running' = FALSE
    /\ cap' = None
    /\ hands' = "open"
    /\ wpc' = "start"
    /\ vision_thread' = "thread"
    /\ gpc' = "connect"
    /\ connected' = {}
    /\ sessions' = sessions + 1
    /\ frames' = 0
    /\ errors' = 0
    /\ surfaced' = 0
    /\ late' = FALSE
    /\ cause' = "none"
    /\ returned' = "none"
    /\ UNCHANGED <<cameras, available_cameras, start_enabled>>

\* VisionManager.start_vision, lines 267-273: a running thread is stopped
\* first (stop() of line 276, then the wait), else a thread is created and
\* started.
ManagerStartVision ==
    /\ gpc = "idle"
    /\ sessions < MaxSessions
    /\ IF vision_thread # None /\ IsRunning
       THEN /\ running' = FALSE
            /\ gpc' = "restart"
            /\ UNCHANGED <<engineVars, camera_index, cap, hands, wpc, managerVars,
                           start_enabled, connected, lifeHistVars>>
       ELSE CreateThread

\* gui.start_vision, lines 2456-2464, behind the start button: with no
\* camera available it returns, else it calls the manager; the signals are
\* connected afterwards.
StartVision ==
    /\ start_enabled
    /\ available_cameras # <<>>
    /\ ManagerStartVision

\* gui.start_vision, lines 2465-2471: the three connects in order, then the
\* buttons.
Connect ==
    /\ gpc = "connect"
    /\ LET n == Cardinality(connected)
       IN  IF n < Len(Signals)
           THEN /\ connected' = connected \cup {Signals[n + 1]}
                /\ UNCHANGED <<gpc, start_enabled, returned>>
           ELSE /\ start_enabled' = FALSE
                /\ gpc' = "idle"
                /\ returned' = "start"
                /\ UNCHANGED connected
    /\ UNCHANGED <<engineVars, workerVars, managerVars,
                   sessions, frames, errors, surfaced, late, cause>>

\* Variant of StopVision: the GUI thread also clears the worker's word.
StopVisionClearsWord ==
    /\ gpc = "idle"
    /\ returned # "stop"
    /\ IF vision_thread # None
       THEN /\ running' = FALSE
            /\ gpc' = "wait"
            /\ returned' = "none"
            /\ UNCHANGED start_enabled
       ELSE /\ start_enabled' = TRUE
            /\ returned' = "stop"
            /\ UNCHANGED <<running, gpc>>
    /\ current_word' = <<>>
    /\ UNCHANGED <<now, dwellVars, sentence, last_word_time, text_emitted, key,
                   key_pressed, histVars>>
    /\ UNCHANGED <<camera_index, cap, hands, wpc, managerVars,
                   connected, sessions, frames, errors, surfaced, late, cause>>

\* gui.stop_vision, lines 2484-2492 (the stop button, handle_vision_error and
\* closeEvent call it), and VisionManager.stop_vision, lines 275-277: stop()
\* clears the flag, then wait() is entered.
StopVision ==
    /\ gpc = "idle"
    /\ returned # "stop"
    /\ IF vision_thread # None
       THEN /\ running' = FALSE
            /\ gpc' = "wait"
            /\ returned' = "none"
            /\ UNCHANGED start_enabled
       ELSE /\ start_enabled' = TRUE
            /\ returned' = "stop"
            /\ UNCHANGED <<running, gpc>>
    /\ UNCHANGED <<engineVars, camera_index, cap, hands, wpc, managerVars,
                   connected, sessions, frames, errors, surfaced, late, cause>>

\* Variant of WaitDone: wait() does not block.
WaitDoneAtOnce == TRUE

\* Line 278: QThread.wait() returns once run() has returned.
WaitDone == wpc = "finished"

\* Lines 278-279: wait() returns and the thread is dropped.  For the stop
\* button the buttons are reset (lines 2489-2492); after the stop of line
\* 269 start_vision goes on to create the new thread.
WaitReturns ==
    /\ gpc \in {"wait", "restart"}
    /\ WaitDone
    /\ IF gpc = "wait"
       THEN /\ vision_thread' = None
            /\ start_enabled' = TRUE
            /\ returned' = "stop"
            /\ gpc' = "idle"
            /\ UNCHANGED <<engineVars, workerVars, cameras, available_cameras,
                           connected, sessions, frames, errors, surfaced, late,
                           cause>>
       ELSE CreateThread

\* error_occurred.emit: a signal with no slot connected is dropped.
EmitError ==
    /\ errors' = AtMostTwo(errors + 1)
    /\ surfaced' = IF "error_occurred" \in connected
                   THEN AtMostTwo(surfaced + 1) ELSE surfaced

\* Variant of ReleasedCap: the handle is left as it is.
CapKept(c) == c

\* Lines 238-239: the camera handle, if there is one, is released.
ReleasedCap(c) == IF c # None THEN "released" ELSE c

\* Lines 237-240, the finally block, then run() returns.
Finally(c) ==
    /\ cap' = ReleasedCap(c)
    /\ hands' = "closed"

\* Where run() goes on after a step: to the finally block or back in it.
GoOn(to, c) ==
    /\ wpc' = to
    /\ IF to = "finished" THEN Finally(c) ELSE cap' = c /\ UNCHANGED hands

\* Variant of AfterOpenFailure: the return of line 166 is missing.
OpenFailureFallsThrough == "opened"

\* Line 166: return.
AfterOpenFailure == "finished"

\* Variant of AfterReadFailure: the read is tried again.
ReadFailureRetried == "loop"

\* Line 178: break.
AfterReadFailure == "finished"

\* Variant of AfterException: the loop goes on with the next frame.
ExceptionSkipsFrame == "loop"

\* Lines 235-236: the except clause is outside the while loop.
AfterException == "finished"

\* Lines 159-171: the camera is opened (V4L2, then any backend) and set up.
WorkerOpen ==
    /\ wpc = "start"
    /\ IF camera_index \in cameras
       THEN /\ GoOn("opened", "opened")
            /\ UNCHANGED <<errors, surfaced, cause>>
       ELSE /\ EmitError
            /\ cause' = "open"
            /\ GoOn(AfterOpenFailure, "unopened")
    /\ late' = (late \/ errors > 0)
    /\ UNCHANGED <<engineVars, camera_index, running, managerVars, guiVars,
                   sessions, frames, returned>>

\* Line 173.
WorkerSetRunning ==
    /\ wpc = "opened"
    /\ running' = TRUE
    /\ wpc' = "loop"
    /\ UNCHANGED <<engineVars, camera_index, cap, hands, managerVars, guiVars,
                   lifeHistVars>>

\* Line 174 finds the flag cleared: the loop ends.
WorkerLeaveLoop ==
    /\ wpc = "loop"
    /\ ~running
    /\ GoOn("finished", cap)
    /\ cause' = IF cause = "none" THEN "stop" ELSE cause
    /\ UNCHANGED <<engineVars, camera_index, running, managerVars, guiVars,
                   sessions, frames, errors, surfaced, late, returned>>

\* Lines 174-175: the flag is set and a frame is read.
ReadFrame ==
    /\ wpc = "loop"
    /\ running
    /\ frames < MaxFrames
    /\ frames' = frames + 1

\* Lines 180-233 went through: frame_ready is emitted.
FrameReady ==
    /\ ReadFrame
    /\ late' = (late \/ errors > 0)
    /\ UNCHANGED <<workerVars, managerVars, guiVars, sessions, errors,
                   surfaced, cause, returned>>

WorkerFrameHand(d, p) == FrameReady /\ cap = "opened" /\ IterHand(d, p)

WorkerFrameNoHand(d) == FrameReady /\ cap = "opened" /\ IterNoHand(d)

\* Lines 176-178: the read fails.
WorkerReadFails ==
    /\ ReadFrame
    /\ EmitError
    /\ cause' = "read"
    /\ GoOn(AfterReadFailure, cap)
    /\ late' = (late \/ errors > 0)
    /\ UNCHANGED <<engineVars, camera_index, running, managerVars, guiVars,
                   sessions, returned>>

\* Lines 235-236: an exception ends the try block.
Raised ==
    /\ ReadFrame
    /\ cap = "opened"
    /\ EmitError
    /\ cause' = "exception"
    /\ GoOn(AfterException, cap)
    /\ late' = (late \/ errors > 0)
    /\ UNCHANGED <<camera_index, running, managerVars, guiVars, sessions,
                   returned>>

\* An exception in lines 180-184, before the frame has changed any state.
WorkerRaisesEarly == Raised /\ UNCHANGED engineVars

\* An exception in lines 230-232, after the text handling of a frame
\* without a hand and before frame_ready.
WorkerRaisesLate(d) == Raised /\ IterNoHand(d)

\* Frames of the lifecycle model: the fingertip on 'a' or no hand, read at
\* once or after the longest gap.
LifePoints == {<<200, 500>>}

LifeGaps == {0, MaxGap}

CameraSets == SUBSET (0..MaxCamera)

\* VisionManager.__init__, lines 246-248, and the GUI of create_vision_tab.
LifeInit ==
    /\ EngineInit(StartTime)
    /\ FrameFixed
    /\ cameras \in CameraSets
    /\ available_cameras = GetAvailableCameras(cameras)
    /\ vision_thread = None
    /\ camera_index = 0
    /\ running = FALSE
    /\ cap = None
    /\ hands = "closed"
    /\ wpc = "none"
    /\ gpc = "idle"
    /\ start_enabled = TRUE
    /\ connected = {}
    /\ sessions = 0
    /\ frames = 0
    /\ errors = 0
    /\ surfaced = 0
    /\ late = FALSE
    /\ cause = "none"
    /\ returned = "none"
    /\ alive = 0

LifeNext ==
    \/ StartVision /\ UNCHANGED <<geomVars, auxVars>>
    \/ Connect /\ UNCHANGED <<geomVars, auxVars>>
    \/ StopVision /\ UNCHANGED <<geomVars, auxVars>>
    \/ WaitReturns /\ UNCHANGED <<geomVars, auxVars>>
    \/ WorkerOpen /\ UNCHANGED <<geomVars, auxVars>>
    \/ WorkerSetRunning /\ UNCHANGED <<geomVars, auxVars>>
    \/ WorkerLeaveLoop /\ UNCHANGED <<geomVars, auxVars>>
    \/ \E d \in LifeGaps : \E p \in LifePoints :
           WorkerFrameHand(d, p) /\ UNCHANGED <<geomVars, auxVars>>
    \/ \E d \in LifeGaps :
           WorkerFrameNoHand(d) /\ UNCHANGED <<geomVars, auxVars>>
    \/ WorkerReadFails /\ UNCHANGED <<geomVars, auxVars>>
    \/ WorkerRaisesEarly /\ UNCHANGED <<geomVars, auxVars>>
    \/ \E d \in LifeGaps :
           WorkerRaisesLate(d) /\ UNCHANGED <<geomVars, auxVars>>

LifeSpec == LifeInit /\ [][LifeNext]_vars

\* ------------------------------------------- the manager, called in any order
\* The threads that were started and whose run() has not returned.
Accounted ==
    alive' = alive + (IF sessions' > sessions THEN 1 ELSE 0)
                   - (IF wpc # "finished" /\ wpc' = "finished" THEN 1 ELSE 0)

ManagerKept == UNCHANGED <<geomVars, runSamples, textHist, pending, after_stop>>

\* start_vision and stop_vision of one VisionManager in any order, whatever
\* the state of the buttons, against the worker's steps.
ManagerNext ==
    \/ ManagerStartVision /\ Accounted /\ ManagerKept
    \/ Connect /\ Accounted /\ ManagerKept
    \/ StopVision /\ Accounted /\ ManagerKept
    \/ WaitReturns /\ Accounted /\ ManagerKept
    \/ WorkerOpen /\ Accounted /\ ManagerKept
    \/ WorkerSetRunning /\ Accounted /\ ManagerKept
    \/ WorkerLeaveLoop /\ Accounted /\ ManagerKept
    \/ \E d \in LifeGaps : \E p \in LifePoints :
           WorkerFrameHand(d, p) /\ Accounted /\ ManagerKept
    \/ \E d \in LifeGaps : WorkerFrameNoHand(d) /\ Accounted /\ ManagerKept
    \/ WorkerReadFails /\ Accounted /\ ManagerKept
    \/ WorkerRaisesEarly /\ Accounted /\ ManagerKept
    \/ \E d \in LifeGaps : WorkerRaisesLate(d) /\ Accounted /\ ManagerKept

ManagerSpec == LifeInit /\ [][ManagerNext]_vars

\* ------------------------------------------- BACKSPACE on a given sentence
Letters == {"a", "s"}

\* The words of at most n letters, the empty one included.
RECURSIVE WordsUpTo(_)
WordsUpTo(n) ==
    IF n = 0 THEN {<<>>}
    ELSE WordsUpTo(n - 1)
         \cup {Append(w, c) : w \in WordsUpTo(n - 1), c \in Letters}

TypedWords == WordsUpTo(MaxWordLen) \ {<<>>}

\* The lists of at most n words.
RECURSIVE LinesUpTo(_)
LinesUpTo(n) ==
    IF n = 0 THEN {<<>>}
    ELSE LinesUpTo(n - 1)
         \cup {Append(l, w) : l \in LinesUpTo(n - 1), w \in TypedWords}

\* The fingertip has been on BC for the dwell threshold; sentence holds some
\* words separated by single spaces, current_word is empty or not.
BackspaceInit ==
    /\ now = StartTime + key_press_cooldown
    /\ current_key = "BC"
    /\ key_start_time = StartTime
    /\ key_emitted = FALSE
    /\ current_word \in WordsUpTo(1)
    /\ words \in LinesUpTo(MaxLineWords)
    /\ sentence = Join(words)
    /\ last_word_time = StartTime
    /\ text_emitted \in BOOLEAN
    /\ key = None
    /\ key_pressed = <<>>
    /\ sampled = "BC"
    /\ lastHit = "BC"
    /\ runStart = StartTime
    /\ runLast = StartTime
    /\ runEmits = 0
    /\ holdStart = StartTime
    /\ holdEmits = 0
    /\ rearm = FALSE
    /\ lastEmit = None
    /\ explicit = FALSE
    /\ SessionRunning
    /\ FrameFixed

BackspaceNext ==
    \E p \in FingerPoints :
        KeyUnder[p] = "BC" /\ IterHand(0, p) /\ UNCHANGED restVars

BackspaceSpec == BackspaceInit /\ [][BackspaceNext]_vars

\* ------------------------------------------------- the hit test on a frame
FrameWidths == {MinFrameWidth + k * (KeyColumns + 1) : k \in 0..MaxGrow}

FrameHeights ==
    {MinFrameHeight + k * (Len(keys) + ExtraRows + 1) : k \in 0..MaxGrow}

\* A frame of some size; the fingertip starts in its top left corner, over
\* no key.
GeomInit ==
    /\ EngineInit(StartTime)
    /\ SessionRunning
    /\ frame_w \in FrameWidths
    /\ frame_h \in FrameHeights
    /\ tip_x = 0
    /\ tip_y = 0
    /\ hit_key = None
    /\ runSamples = 0
    /\ typed = <<>>
    /\ emitted = <<>>
    /\ vision_text = <<>>
    /\ pending = <<>>
    /\ after_stop = FALSE

\* Lines 108-137 on the next frame: the fingertip has moved by (dx, dy).
HitTest(dx, dy) ==
    /\ tip_x + dx \in 0..frame_w
    /\ tip_y + dy \in 0..frame_h
    /\ tip_x' = tip_x + dx
    /\ tip_y' = tip_y + dy
    /\ hit_key' = HitKeyAt(frame_w, frame_h, tip_x', tip_y')
    /\ UNCHANGED <<frame_w, frame_h, auxVars, engineVars, lifeVars>>

GeomNext == \E dx, dy \in 0..1 : dx + dy = 1 /\ HitTest(dx, dy)

GeomSpec == GeomInit /\ [][GeomNext]_vars

\* ------------------------------------------ detect_key_press called directly
\* One call of detect_key_press d seconds after the last, with outcome det.
Detected(d, det) ==
    /\ now + d <= MaxTime
    /\ now' = now + d
    /\ current_key' = det.dwell.current_key
    /\ key_start_time' = det.dwell.key_start_time
    /\ key_emitted' = det.dwell.key_emitted
    /\ key' = det.ret
    /\ UNCHANGED <<textVars, key_pressed, histVars, restVars>>

\* A call with the landmarks of a hand, the index fingertip at pixel p.
DetectSample(d, p) == Detected(d, detect_key_press(Dwell, p, now + d))

\* A call with no landmarks.
DetectNoLandmarks(d) == Detected(d, NoLandmarks(Dwell))

DetectNext ==
    \/ \E d \in 0..MaxGap : \E p \in FingerPoints : DetectSample(d, p)
    \/ \E d \in 0..MaxGap : DetectNoLandmarks(d)

DetectSpec == Init /\ [][DetectNext]_vars

\* ------------------------------------------- the frame loop, samples counted
\* The samples of the latest run, as Recorded delimits it.
Counted(hit) ==
    runSamples' =
        IF hit = NoHand THEN runSamples
        ELSE IF IsKey(hit) /\ hit = lastHit
             THEN (IF runSamples < MaxCount THEN runSamples + 1 ELSE MaxCount)
             ELSE IF IsKey(hit) THEN 1 ELSE 0

\* The fingertip on 'a', on 's' or off the keyboard.
TimingPoints == {<<200, 500>>, <<300, 500>>, <<40, 40>>}

TimingNext ==
    \/ \E d \in 0..MaxGap : \E p \in TimingPoints :
           IterHand(d, p) /\ Counted(KeyUnder[p])
               /\ UNCHANGED <<lifeVars, geomVars, textHist, queueVars>>
    \/ \E d \in 0..MaxGap :
           IterNoHand(d) /\ Counted(NoHand)
               /\ UNCHANGED <<lifeVars, geomVars, textHist, queueVars>>

TimingSpec == Init /\ [][TimingNext]_vars

\* ------------------------------------------ the frame loop at a steady rate
\* The dwell threshold exceeds the inactivity window by this much; frames
\* that far apart are the slowest steady rate at which a frame still falls
\* between the end of the window and the end of the next dwell.
FramePeriod == key_press_cooldown - word_timeout

SteadyNext ==
    \/ \E p \in FingerPoints : IterHand(FramePeriod, p) /\ UNCHANGED restVars
    \/ IterNoHand(FramePeriod) /\ UNCHANGED restVars

SteadySpec == Init /\ [][SteadyNext]_vars

\* --------------------------------------------- the frame loop and its consumer
\* gui.handle_vision_key_press, lines 2508-2532, on the text shown so far.
\* text_processed is false whenever a slot starts: the finally clause resets it.
handle_vision_key_press(text, ev) ==
    IF ev = BackspaceToken
    THEN (IF text # <<>> THEN DropLast(text) ELSE text)
    ELSE IF ev = SpaceToken
         THEN (IF text # <<>> /\ text[Len(text)] = " " THEN text ELSE text \o <<" ">>)
         ELSE IF ev = NewlineToken
              THEN text \o <<"\n">>
              ELSE text \o ev

\* The slot run on each event of a sequence, in the order emitted.
RECURSIVE Delivered(_, _)
Delivered(text, evs) ==
    IF evs = <<>> THEN text
    ELSE Delivered(handle_vision_key_press(text, Head(evs)), Tail(evs))

\* The characters of the events of a sequence, one after the other.
RECURSIVE Concat(_)
Concat(evs) == IF evs = <<>> THEN <<>> ELSE Head(evs) \o Concat(Tail(evs))

\* The events of a sequence other than the space and the newline.
RECURSIVE WordEvents(_)
WordEvents(evs) ==
    IF evs = <<>> THEN <<>>
    ELSE IF Head(evs) \in {SpaceToken, NewlineToken} THEN WordEvents(Tail(evs))
         ELSE <<Head(evs)>> \o WordEvents(Tail(evs))

\* What the iteration just made adds to the histories: the key confirmed,
\* the words it committed, and the events as the GUI slot handled them.
Consumed ==
    /\ typed' = IF key' \notin {None, "SE", "ET", "BC"} THEN Append(typed, key')
                ELSE IF key' = "BC" /\ current_word # <<>> THEN DropLast(typed)
                ELSE typed
    /\ emitted' = IF key' = "BC" THEN emitted
                  ELSE emitted \o Concat(WordEvents(key_pressed'))
    /\ vision_text' = Delivered(vision_text, key_pressed')

ConsumerNext ==
    \/ \E d \in 0..MaxGap : \E p \in FingerPoints :
           IterHand(d, p) /\ Consumed
               /\ UNCHANGED <<lifeVars, geomVars, runSamples, queueVars>>
    \/ \E d \in 0..MaxGap :
           IterNoHand(d) /\ Consumed
               /\ UNCHANGED <<lifeVars, geomVars, runSamples, queueVars>>

ConsumerSpec == Init /\ [][ConsumerNext]_vars

\* ------------------------------------------------ the queued signal deliveries
\* The argument of frame_ready and error_occurred, which no slot of the
\* model looks at.
NoArg == <<>>

\* Lines 9-11 and gui.py 2466-2468: the slots belong to the main window, the
\* signals are emitted in run(), on the worker thread, so that every emit
\* posts one event per connected slot to the GUI thread; an emit with no
\* slot connected posts nothing.
Posted(sig, args) ==
    IF sig \in connected
    THEN [n \in 1..Len(args) |-> [sig |-> sig, arg |-> args[n]]]
    ELSE <<>>

\* The emits of lines 191-228 of this iteration, then that of line 233.
PostFrame ==
    pending' = pending \o Posted("key_pressed", key_pressed')
                       \o Posted("frame_ready", <<NoArg>>)

\* Lines 165, 177 and 236.
PostError == pending' = pending \o Posted("error_occurred", <<NoArg>>)

\* The emits of lines 191-228 of this iteration, then that of line 236.
PostLateError ==
    pending' = pending \o Posted("key_pressed", key_pressed')
                       \o Posted("error_occurred", <<NoArg>>)

\* The slot of an event: update_vision_frame (lines 2498-2506) paints the
\* camera label, handle_vision_key_press edits the text box,
\* handle_vision_error (lines 2476-2482) shows a dialog and calls
\* stop_vision.
RunSlot(ev) ==
    IF ev.sig = "key_pressed"
    THEN /\ vision_text' = handle_vision_key_press(vision_text, ev.arg)
         /\ UNCHANGED <<engineVars, lifeVars>>
    ELSE IF ev.sig = "error_occurred" /\ returned # "stop"
    THEN StopVision /\ UNCHANGED vision_text
    ELSE UNCHANGED <<engineVars, lifeVars, vision_text>>

\* The event loop of the GUI thread hands the oldest posted event to its
\* slot.
Deliver ==
    /\ gpc = "idle"
    /\ pending # <<>>
    /\ pending' = Tail(pending)
    /\ after_stop' = (after_stop \/ returned = "stop")
    /\ RunSlot(Head(pending))
    /\ UNCHANGED <<geomVars, runSamples, typed, emitted, alive>>

QueueKept ==
    UNCHANGED <<geomVars, runSamples, textHist, alive, after_stop>>

DeliveryNext ==
    \/ StartVision /\ UNCHANGED pending /\ QueueKept
    \/ Connect /\ UNCHANGED pending /\ QueueKept
    \/ StopVision /\ UNCHANGED pending /\ QueueKept
    \/ WaitReturns /\ UNCHANGED pending /\ QueueKept
    \/ WorkerOpen /\ (IF camera_index \in cameras
                      THEN UNCHANGED pending ELSE PostError) /\ QueueKept
    \/ WorkerSetRunning /\ UNCHANGED pending /\ QueueKept
    \/ WorkerLeaveLoop /\ UNCHANGED pending /\ QueueKept
    \/ \E d \in LifeGaps : \E p \in LifePoints :
           WorkerFrameHand(d, p) /\ PostFrame /\ QueueKept
    \/ \E d \in LifeGaps : WorkerFrameNoHand(d) /\ PostFrame /\ QueueKept
    \/ WorkerReadFails /\ PostError /\ QueueKept
    \/ WorkerRaisesEarly /\ PostError /\ QueueKept
    \/ \E d \in LifeGaps : WorkerRaisesLate(d) /\ PostLateError /\ QueueKept
    \/ Deliver

DeliverySpec == LifeInit /\ [][DeliveryNext]_vars

\* ------------------------------------------------ the frame loop, one word typed
\* The fingertip on 'b', 'a', 'c', 'k', 's', 'p' and 'e'.
TypingPoints ==
    { <<720, 580>>, <<200, 500>>, <<520, 580>>, <<940, 500>>, <<300, 500>>,
      <<1100, 420>>, <<350, 420>> }

\* Lines 124-137 for each of these positions.
TypingKeyUnder == [p \in TypingPoints |-> HitKey(p[1], p[2])]

\* The letter the user goes for next: the word typed is b-a-c-k-s-p-a-c-e,
\* begun again after every commit.
NextLetter ==
    BackspaceToken[(Len(current_word) % Len(BackspaceToken)) + 1]

\* An iteration whose frame shows the fingertip on the next letter.
TypeHand(d, p) ==
    /\ now + d <= MaxTypingTime
    /\ TypingKeyUnder[p] = NextLetter
    /\ \E det \in {HandleTiming(Dwell, TypingKeyUnder[p], now + d)} :
           ProcessFrameWithin(TypingKeyUnder[p], det, now + d,
                              Len(BackspaceToken), Len(BackspaceToken))

\* An iteration whose frame shows no hand.
TypeNoHand(d) ==
    /\ now + d <= MaxTypingTime
    /\ ProcessFrameWithin(NoHand, [dwell |-> Dwell, ret |-> None], now + d,
                          Len(BackspaceToken), Len(BackspaceToken))

TypingNext ==
    \/ \E d \in 0..MaxGap : \E p \in TypingPoints :
           TypeHand(d, p) /\ UNCHANGED restVars
    \/ \E d \in 0..MaxGap : TypeNoHand(d) /\ UNCHANGED restVars

TypingSpec == Init /\ [][TypingNext]_vars

\* ------------------------------------------------------------- properties
Idle == current_key = None /\ key_start_time = NoTime /\ ~key_emitted

RunHeld == runLast - runStart

LongEnough(held) == held >= key_press_cooldown

\* C1 - Dwell confirmation: over a run of consecutive fingertip samples on
\* one key K, detect_key_press returns K exactly once as soon as the time
\* from the first sample of the run to the latest one reaches the dwell
\* threshold, and returns nothing on every other sample of the run.
C1_DwellConfirmation ==
    IsKey(lastHit) =>
        /\ runEmits = IF LongEnough(RunHeld) THEN 1 ELSE 0
        /\ (IsKey(sampled) => key \in {None, lastHit})
        /\ (IsKey(sampled) /\ key # None => lastEmit = lastHit)

\* A key is returned on the sample that completes a three second run.
C1_Witness ==
    /\ IsKey(sampled)
    /\ key = sampled
    /\ runEmits = 1
    /\ RunHeld = key_press_cooldown

\* C2 - No premature emission: when the fingertip leaves all keys after a
\* run on K shorter than the dwell threshold, nothing was returned during
\* that run, nothing is returned on the miss, and the dwell state is Idle.
C2_NoPrematureEmission ==
    (sampled = None /\ runStart # NoTime /\ ~LongEnough(RunHeld)) =>
        /\ runEmits = 0
        /\ key = None
        /\ Idle

\* A miss right after a run that lasted two seconds.
C2_Witness ==
    /\ sampled = None
    /\ runStart # NoTime
    /\ RunHeld = key_press_cooldown - 1
    /\ now = runLast

\* C3 - Hand lost resets the dwell detector: after an iteration whose frame
\* shows no hand the dwell state is Idle, and a key is returned only when
\* the unbroken contact with it has lasted the whole dwell threshold.
C3_HandLostResets ==
    /\ sampled = NoHand => Idle
    /\ key # None => LongEnough(now - holdStart)

\* C4 - No duplicate emission while held: during one run of consecutive
\* samples on K, K is returned at most once; every sample after the
\* confirming one returns nothing.
C4_NoDuplicateWhileHeld ==
    /\ runEmits <= 1
    /\ (IsKey(sampled) /\ key # None) => (key = lastHit /\ runEmits = 1)

\* K was confirmed and the fingertip is still on K a later sample.
C4_Witness ==
    /\ IsKey(sampled)
    /\ sampled = lastHit
    /\ runEmits = 1
    /\ key = None
    /\ RunHeld > key_press_cooldown

\* C5 - Release re-arms: when the fingertip comes back to K after a release
\* (a miss, a frame without a hand, or another key) that followed a
\* confirmation of K, and stays for a fresh dwell threshold, K is returned
\* again exactly once.
C5_ReleaseRearms ==
    (IsKey(sampled) /\ rearm /\ LongEnough(now - holdStart)) => holdEmits = 1

\* C6 - Word commit on SPACE: SPACE confirmed with current_word = w non-empty
\* appends w and one space to sentence, empties current_word, and emits w
\* followed by a literal space.
C6_SpaceCommits ==
    [][ (key' = "SE" /\ current_word # <<>>) =>
            /\ sentence' = sentence \o current_word \o <<" ">>
            /\ current_word' = <<>>
            /\ key_pressed' = <<current_word, SpaceToken>> ]_vars

\* C7 - An abandoned word is never lost: once an iteration that confirms no
\* key runs later than the inactivity window after the last edit, no word
\* is left in current_word.
C7_AbandonedWordCommitted ==
    (current_word # <<>> /\ key = None) => now - last_word_time <= word_timeout

\* C8 - Word commit on inactivity: with current_word = w non-empty and no
\* SPACE or ENTER since the last printable key, an iteration that confirms
\* no key commits w (appended to sentence, emitted once, current_word
\* cleared) when more than 2 s have passed since that key, and commits
\* nothing otherwise.
C8_InactivityCommits ==
    [][ (current_word # <<>> /\ ~explicit /\ key' = None) =>
            IF now' - last_word_time > word_timeout
            THEN /\ sentence' = sentence \o current_word
                 /\ key_pressed' = <<current_word>>
                 /\ current_word' = <<>>
            ELSE /\ UNCHANGED <<current_word, sentence>>
                 /\ key_pressed' = <<>> ]_vars

\* C9 - ENTER resets the paragraph: ENTER confirmed emits current_word, if
\* non-empty, and then exactly one newline, and leaves current_word and
\* sentence empty.
C9_EnterResets ==
    [][ key' = "ET" =>
            /\ key_pressed' = (IF current_word # <<>> THEN <<current_word>> ELSE <<>>)
                                \o <<NewlineToken>>
            /\ current_word' = <<>>
            /\ sentence' = <<>> ]_vars

\* C10 - Sentence format: sentence is the words committed since the last
\* ENTER joined by single spaces.
C10_SentenceFormat == sentence = Join(words)

\* What is left of s without its trailing whitespace.
RECURSIVE StripSpace(_)
StripSpace(s) ==
    IF s # <<>> /\ s[Len(s)] \in Whitespace THEN StripSpace(DropLast(s)) ELSE s

\* What is left of s without its trailing non-whitespace characters.
RECURSIVE StripToken(_)
StripToken(s) ==
    IF s # <<>> /\ s[Len(s)] \notin Whitespace THEN StripToken(DropLast(s)) ELSE s

\* s without its last whitespace-delimited token and the space before it.
RemoveLastToken(s) == StripSpace(StripToken(StripSpace(s)))

\* C11 - Backspace cascading: BACKSPACE confirmed with current_word empty
\* removes exactly the last whitespace-delimited token of a non-empty
\* sentence, keeps current_word empty and emits the new sentence; with
\* sentence empty too nothing is emitted and both stay empty.
C11_BackspaceCascades ==
    [][ (key' = "BC" /\ current_word = <<>>) =>
            /\ current_word' = <<>>
            /\ IF sentence # <<>>
               THEN /\ sentence' = RemoveLastToken(sentence)
                    /\ key_pressed' = <<sentence'>>
               ELSE /\ sentence' = <<>>
                    /\ key_pressed' = <<>> ]_vars

\* BACKSPACE took the third word off a sentence and emitted the two left.
C11_Witness ==
    /\ key = "BC"
    /\ current_word = <<>>
    /\ Len(Split(sentence)) = 2
    /\ Len(sentence) = 3
    /\ key_pressed = <<sentence>>

\* C12 - In-word backspace: BACKSPACE confirmed with current_word non-empty
\* removes exactly its last character, leaves sentence alone and emits
\* exactly one backspace event.
C12_InWordBackspace ==
    [][ (key' = "BC" /\ current_word # <<>>) =>
            /\ \E c \in Letters : current_word = Append(current_word', c)
            /\ sentence' = sentence
            /\ key_pressed' = <<BackspaceToken>> ]_vars

\* BACKSPACE took the second letter off a word of two.
C12_Witness ==
    /\ key = "BC"
    /\ Len(current_word) = 1
    /\ key_pressed = <<BackspaceToken>>

\* C13 - Stop always terminates: while the caller of stop_vision is blocked
\* in wait(), a worker at the head of its frame loop finds the stop flag
\* cleared, so it leaves the loop and wait() returns.
C13_StopTerminates ==
    (gpc \in {"wait", "restart"} /\ wpc = "loop") => ~running

\* C14 - Stop is synchronous: when stop_vision has returned the worker has
\* left run(), the camera is released, the detector is closed and the
\* manager holds no thread.
C14_StopSynchronous ==
    returned = "stop" =>
        /\ wpc \in {"none", "finished"}
        /\ cap \in {None, "released"}
        /\ hands = "closed"
        /\ vision_thread = None

\* stop_vision returned after stopping a worker that had processed frames.
C14_Witness ==
    /\ returned = "stop"
    /\ cause = "stop"
    /\ frames > 0

\* C15 - Resources are released on every exit path: a worker that has left
\* run() holds no camera handle and its detector is closed.
C15_ReleasedOnExit ==
    wpc = "finished" => (cap \in {None, "released"} /\ hands = "closed")

\* The worker of a second session left run() on an exception and released
\* the camera it had opened.
C15_Witness ==
    /\ wpc = "finished"
    /\ cause = "exception"
    /\ cap = "released"
    /\ sessions = 2

C17_ReadFailureTerminal ==
    cause = "read" =>
        /\ wpc = "finished"
        /\ errors = 1
        /\ ~late
        /\ cap = "released"

\* The read of the third frame failed.
C17_Witness ==
    /\ cause = "read"
    /\ frames = 3
    /\ wpc = "finished"

\* C18 - Device errors are always surfaced: after a failed open or a failed
\* read an error event has reached the slot of the consumer.
C18_DeviceErrorSurfaced ==
    cause \in {"open", "read"} => surfaced >= 1

\* C19 - Invalid configuration is rejected at start time: a thread exists
\* only for a camera index that was probed as available.
C19_InvalidIndexRejected ==
    vision_thread # None =>
        \E i \in 1..Len(available_cameras) : available_cameras[i] = camera_index

\* C20 - Camera-open failure never enters the loop: after a failed open
\* exactly one error event has been emitted and the worker has left run()
\* without setting the flag, reading a frame or emitting anything else.
C20_OpenFailureTerminal ==
    cause = "open" =>
        /\ wpc = "finished"
        /\ errors = 1
        /\ frames = 0
        /\ ~late
        /\ ~running
        /\ key_pressed = <<>>

\* The camera of the second session did not open.
C20_Witness ==
    /\ cause = "open"
    /\ wpc = "finished"
    /\ errors = 1

\* The keys whose drawn rectangle has the fingertip inside.
Under == {q \in Positions : InRectangle(frame_w, frame_h, q[1], q[2], tip_x, tip_y)}

\* C21 - Hit-testing agrees with the key rectangles: a fingertip inside the
\* rectangle of key K (twice as wide for SE, ET and BC) is reported as K.
C21_HitAgreesWithRectangle ==
    \A q \in Under : hit_key = keys[q[1]][q[2]]

\* C22 - Key rectangles never overlap: no point is inside the rectangles of
\* two distinct keys.
C22_RectanglesDisjoint == Cardinality(Under) <= 1

\* The fingertip is in the 5 px strip right of a key that has a right-hand
\* neighbour, or in the strip below a row that has a row below.
InStrip ==
    \E q \in Positions :
        LET kx == KeyXAt(frame_w, q[1], q[2])
            ky == KeyYAt(frame_h, q[1])
            kw == KeyWidthAt(frame_w)
            kh == KeyHeightAt(frame_h)
        IN  \/ /\ q[2] < Len(keys[q[1]])
               /\ kx + kw - KeyInset <= tip_x
               /\ tip_x <= kx + kw
               /\ ky < tip_y
               /\ tip_y < ky + kh - KeyInset
            \/ /\ q[1] < Len(keys)
               /\ ky + kh - KeyInset <= tip_y
               /\ tip_y <= ky + kh
               /\ kx < tip_x
               /\ tip_x < kx + kw - KeyInset

\* C27 - The hit-test result is unambiguous: on every frame size at most one
\* key satisfies the hit condition at a point, the reported key is that
\* key, and a point in the strips between adjacent keys hits no key.
C27_HitUnambiguous ==
    LET m == Matches(frame_w, frame_h, tip_x, tip_y)
    IN  /\ Cardinality(m) <= 1
        /\ \A q \in m : hit_key = keys[q[1]][q[2]]
        /\ (m = {}) => hit_key = None
        /\ InStrip => hit_key = None

\* The fingertip is in a strip between two keys of the bottom row on a frame
\* whose width is not a multiple of twelve, and no key is reported.
C27_Witness ==
    /\ InStrip
    /\ hit_key = None
    /\ tip_y > KeyYAt(frame_h, Len(keys))
    /\ frame_w % KeyColumns # 0

\* C23 - Camera enumeration is complete: available_cameras holds exactly the
\* probed indices whose camera opens.
C23_EnumerationComplete ==
    \A i \in 0..(ProbeCount - 1) :
        (i \in cameras) <=>
            (\E n \in 1..Len(available_cameras) : available_cameras[n] = i)

\* C24 - Dwell state well-formedness: after any sequence of detect_key_press
\* calls, with or without landmarks, key_emitted is set only while there is
\* a candidate key with its start time.
C24_DwellWellFormed ==
    key_emitted => (current_key # None /\ key_start_time # NoTime)

\* C25 - Switching keys restarts the dwell: a sample on key K while the
\* candidate is another key or none makes K the candidate with this sample's
\* time as hold start and key_emitted cleared, and returns nothing; a key is
\* returned only for the candidate, its hold start unchanged and at least
\* the threshold ago.
C25_SwitchRestartsDwell ==
    [][ /\ (IsKey(sampled') /\ sampled' # current_key) =>
               /\ current_key' = sampled'
               /\ key_start_time' = now'
               /\ key_emitted' = FALSE
               /\ key' = None
        /\ (key' # None) =>
               /\ key' = current_key
               /\ key_start_time' = key_start_time
               /\ now' - key_start_time >= key_press_cooldown ]_vars

\* After 'a' was confirmed the fingertip reached 's': 's' is the candidate
\* and its hold starts at this sample.
C25_Witness ==
    /\ sampled = "s"
    /\ current_key = "s"
    /\ key_start_time = now
    /\ ~key_emitted
    /\ lastEmit = "a"
    /\ key = None

\* C26 - Timeouts are time-based, not iteration-based: a sample on the
\* candidate key, not yet reported, returns it exactly when the time since
\* its hold start has reached the threshold, and a frame that returns no key
\* commits a pending word exactly when the time since its last edit exceeds
\* the inactivity window, whatever the number of frames in between.
C26_TimeBased ==
    [][ /\ ( /\ IsKey(sampled')
             /\ sampled' = current_key
             /\ key_start_time # NoTime
             /\ ~key_emitted ) =>
               ( key' = current_key <=>
                     now' - key_start_time >= key_press_cooldown )
        /\ ( /\ key' = None
             /\ current_word # <<>>
             /\ ~text_emitted ) =>
               ( (key_pressed' = <<current_word>> /\ current_word' = <<>>) <=>
                     now' - last_word_time > word_timeout ) ]_vars

\* A hold of exactly the threshold was confirmed on its fourth sample.
C26_Witness ==
    /\ key = "a"
    /\ runSamples = MaxCount
    /\ runLast - runStart = key_press_cooldown
    /\ runEmits = 1

SpecialKeys == {"SE", "ET", "BC"}

\* The symbols of the layout other than SE, ET and BC.
PrintableKeys ==
    {keys[q[1]][q[2]] : q \in Positions} \ SpecialKeys

\* C28 - Printable key handling: a confirmed key other than SE, ET and BC is
\* appended to current_word, the last-edit time becomes now, sentence is
\* unchanged and nothing is emitted in that iteration.
C28_PrintableAppends ==
    [][ (key' \in PrintableKeys) =>
            /\ current_word' = Append(current_word, key')
            /\ last_word_time' = now'
            /\ sentence' = sentence
            /\ key_pressed' = <<>> ]_vars

\* 's' was confirmed as the second letter of a word.
C28_Witness ==
    /\ key = "s"
    /\ Len(current_word) = 2
    /\ current_word[2] = "s"
    /\ last_word_time = now

\* C29 - SPACE on an empty word is a no-op: SE confirmed with current_word
\* empty leaves current_word and sentence as they are and emits nothing.
C29_SpaceOnEmptyWord ==
    [][ (key' = "SE" /\ current_word = <<>>) =>
            /\ current_word' = <<>>
            /\ sentence' = sentence
            /\ key_pressed' = <<>> ]_vars

\* SE was confirmed with no word pending, after a word had been committed.
C29_Witness ==
    /\ key = "SE"
    /\ current_word = <<>>
    /\ key_pressed = <<>>
    /\ sentence # <<>>

\* C30 - current_word consists of printable key symbols only: SE, ET and BC
\* are never appended to it.
C30_WordIsPrintable ==
    \A n \in 1..Len(current_word) : current_word[n] \in PrintableKeys

\* BC was confirmed on a word of two letters and took one away.
C30_Witness ==
    /\ lastEmit = "BC"
    /\ current_word # <<>>
    /\ explicit = FALSE

\* A step of the GUI thread: start_vision, a connect, stop_vision or the
\* return of wait().
GuiStep == <<gpc, start_enabled, connected, returned>>' #
           <<gpc, start_enabled, connected, returned>>

\* C31 - Engine state is worker-private: a step of the GUI thread on an
\* existing worker leaves its dwell state, text buffer, camera handle and
\* detector alone and writes nothing of it but the stop flag, which it can
\* only clear; the state of a newly created worker is that of __init__.
C31_WorkerPrivate ==
    [][ GuiStep =>
            IF sessions' = sessions
            THEN /\ UNCHANGED <<dwellVars, textVars, camera_index, cap, hands, wpc>>
                 /\ (running' # running) => ~running'
            ELSE /\ current_key' = None
                 /\ key_start_time' = NoTime
                 /\ ~key_emitted'
                 /\ current_word' = <<>>
                 /\ sentence' = <<>> ]_vars

\* stop_vision was called on a worker that holds a typed letter, and waits.
C31_Witness ==
    /\ gpc = "wait"
    /\ ~running
    /\ current_word = <<"a">>
    /\ current_key = "a"

C34_TypedConserved == emitted \o current_word = typed

\* A word was committed and, of the letters typed since, an in-word
\* BACKSPACE has left one pending.
C34_Witness ==
    /\ Len(emitted) >= 1
    /\ current_word # <<>>
    /\ lastEmit = "BC"
    /\ Len(typed) >= 2

\* C36 - The consumer's text never loses committed characters to an in-word
\* backspace: the 'backspace' event of a BACKSPACE that shortened
\* current_word removes nothing from the text the GUI shows.
C36_DisplayKeepsCommitted ==
    [][ (key' = "BC" /\ current_word # <<>>) =>
            Len(vision_text') >= Len(vision_text) ]_vars

\* C39 - Text events are unambiguous: the backspace, space and newline
\* tokens are emitted only by the confirmation of BC, SE and ET; no word
\* event of a commit equals one of them.
C39_TokensUnambiguous ==
    \A n \in 1..Len(key_pressed) :
        /\ key_pressed[n] = BackspaceToken => key = "BC"
        /\ key_pressed[n] = SpaceToken => key = "SE"
        /\ key_pressed[n] = NewlineToken => key = "ET"

\* C35 - At most one worker per manager: at most one VisionThread of the
\* manager is running at any time; a thread is created only when none is
\* running, a start_vision issued while one runs having stopped it and
\* waited for its exit first, and the new worker starts with empty dwell
\* state, current_word and sentence.
C35_OneWorker ==
    [][ /\ alive' <= 1
        /\ sessions' > sessions =>
               /\ alive = 0
               /\ gpc = "restart" => wpc = "finished"
               /\ current_key' = None
               /\ key_start_time' = NoTime
               /\ ~key_emitted'
               /\ current_word' = <<>>
               /\ sentence' = <<>> ]_vars

\* start_vision was issued while a worker that had typed 'a' was running;
\* the worker has been stopped and has left run(), so that the wait returns
\* and the new thread is created next.
C35_Witness ==
    /\ gpc = "restart"
    /\ wpc = "finished"
    /\ sessions = 1
    /\ alive = 0
    /\ current_word = <<"a">>

\* C38 - No event is delivered after stop: once stop_vision has returned, no
\* slot of the consumer runs for a frame-ready, keystroke or error event of
\* the stopped worker.
C38_NoDeliveryAfterStop == ~after_stop

====
